---- MODULE Spec2Model ----
(***************************************************************************)
(* lqcli: the `sources sync` / `sources list` commands of main.rs, the     *)
(* source selection of config.rs, the feed and item model of source.rs.    *)
(*                                                                         *)
(* Spec    one run of main(): load the configuration, dispatch on the      *)
(*         subcommand, and for `sync` walk the selected sources.           *)
(* FnSpec  the pure functions (filtered_sources, Feed::items,              *)
(*         get_audio_link, title) applied to inputs drawn from bounded     *)
(*         sets.                                                           *)
(***************************************************************************)
EXTENDS Integers, Sequences, FiniteSets, TLC

(***************************************************************************)
(* Bounds of the model.                                                    *)
(***************************************************************************)
\* sources in the configuration of a run (Spec)
MaxSources == 2
\* entries in a feed served to a run (Spec)
MaxFeedLen == 2
\* sources in the configuration handed to filtered_sources (FnSpec)
MaxCfgSources == 3
\* entries in a feed handed to Feed::items (FnSpec)
MaxEntries == 3
\* largest count handed to Feed::items (FnSpec)
MaxCount == 4
\* titles in the snapshot handed to the loop body (FnSpec)
MaxSnapshot == 2
\* bytes yt-dlp writes to its stderr (DlSpec)
MaxStderr == 2

(***************************************************************************)
(* Option<T> and Result<T, E>.                                             *)
(***************************************************************************)
None == <<>>

Some(x) == <<x>>

IsSome(o) == Len(o) = 1

Unwrap(o) == o[1]

UnwrapOr(o, d) == IF IsSome(o) THEN o[1] ELSE d

\* Option<Vec<String>>::unwrap_or_default
unwrap_or_default(o) == IF IsSome(o) THEN o[1] ELSE <<>>

Ok(v) == [ok |-> TRUE, val |-> v]

Err(e) == [ok |-> FALSE, err |-> e]

SeqsUpTo(S, n) == UNION {[1..m -> S] : m \in 0..n}

\* str::to_lowercase on the titles of the model
to_lowercase(x) == IF x = "News" THEN "news" ELSE x

ContainsIgnoreCase(v, x) == \E n \in 1..Len(v) : to_lowercase(v[n]) = to_lowercase(x)

\* Vec::contains / slice::contains: equality of some element
Contains(v, x) == \E n \in 1..Len(v) : v[n] = x

(***************************************************************************)
(* Value domains.                                                          *)
(***************************************************************************)
Titles == {"News", "news"}

Hrefs == {"u1", "u2"}

SourceNames == <<"s1", "s2", "s3", "s4">>

\* rss::Item, the fields the program reads
RssItemsAll == [title : {None} \cup {Some(t) : t \in Titles},
                enclosure : {None, Some([url |-> "u1"])}]

\* atom_syndication::Entry, the fields the program reads
AtomEntriesAll == [title : Titles,
                   links : {<<>>, <<[href |-> "u1"]>>, <<[href |-> "u2"], [href |-> "u1"]>>}]

\* the entries the feeds served to a run are made of
RssItemsRun == {[title |-> Some("News"), enclosure |-> Some([url |-> "u1"])],
                [title |-> Some("News"), enclosure |-> None],
                [title |-> Some("news"), enclosure |-> Some([url |-> "u1"])],
                [title |-> None, enclosure |-> Some([url |-> "u1"])]}

AtomEntriesRun == {[title |-> "News", links |-> <<>>],
                   [title |-> "news", links |-> <<[href |-> "u2"], [href |-> "u1"]>>]}

(***************************************************************************)
(* source.rs: items and feeds.                                             *)
(***************************************************************************)
SourceItemRss(item) == [variant |-> "Rss", item |-> item]

SourceItemAtom(entry) == [variant |-> "Atom", entry |-> entry]

from_url_and_title(url, t) == [variant |-> "Static", static |-> [url |-> url, title |-> t]]

FeedRss(channel) == [variant |-> "Rss", items |-> channel]

FeedAtom(entries) == [variant |-> "Atom", entries |-> entries]

\* Iterator::take
RECURSIVE Take(_, _)
Take(s, n) == IF n = 0 \/ s = <<>> THEN <<>> ELSE <<Head(s)>> \o Take(Tail(s), n - 1)

ItemsOneMore(feed, count) ==
    IF feed.variant = "Rss"
    THEN LET taken == Take(feed.items, count + 1)
         IN  [n \in 1..Len(taken) |-> SourceItemRss(taken[n])]
    ELSE LET taken == Take(feed.entries, count + 1)
         IN  [n \in 1..Len(taken) |-> SourceItemAtom(taken[n])]

ItemsAll(feed, count) ==
    IF feed.variant = "Rss"
    THEN [n \in 1..Len(feed.items) |-> SourceItemRss(feed.items[n])]
    ELSE [n \in 1..Len(feed.entries) |-> SourceItemAtom(feed.entries[n])]

ItemsReversed(feed, count) ==
    IF feed.variant = "Rss"
    THEN LET taken == Take(feed.items, count)
         IN  [n \in 1..Len(taken) |-> SourceItemRss(taken[Len(taken) + 1 - n])]
    ELSE LET taken == Take(feed.entries, count)
         IN  [n \in 1..Len(taken) |-> SourceItemAtom(taken[Len(taken) + 1 - n])]

\* Feed::items
Items(feed, count) ==
    IF feed.variant = "Rss"
    THEN LET taken == Take(feed.items, count)
         IN  [n \in 1..Len(taken) |-> SourceItemRss(taken[n])]
    ELSE LET taken == Take(feed.entries, count)
         IN  [n \in 1..Len(taken) |-> SourceItemAtom(taken[n])]

GetAudioLinkUnwrap(item) ==
    CASE item.variant = "Rss" ->
            IF IsSome(item.item.enclosure) THEN Some(Unwrap(item.item.enclosure).url)
            ELSE <<"panicked", "called Option::unwrap on a None value">>
      [] item.variant = "Atom" ->
            IF Len(item.entry.links) > 0 THEN Some(item.entry.links[1].href) ELSE None
      [] item.variant = "Static" -> Some(item.static.url)

GetAudioLinkLastLink(item) ==
    CASE item.variant = "Rss" ->
            IF IsSome(item.item.enclosure) THEN Some(Unwrap(item.item.enclosure).url) ELSE None
      [] item.variant = "Atom" ->
            IF Len(item.entry.links) > 0
            THEN Some(item.entry.links[Len(item.entry.links)].href) ELSE None
      [] item.variant = "Static" -> Some(item.static.url)

\* SourceItem::get_audio_link
get_audio_link(item) ==
    CASE item.variant = "Rss" ->
            IF IsSome(item.item.enclosure) THEN Some(Unwrap(item.item.enclosure).url) ELSE None
      [] item.variant = "Atom" ->
            IF Len(item.entry.links) > 0 THEN Some(item.entry.links[1].href) ELSE None
      [] item.variant = "Static" -> Some(item.static.url)

\* SourceItem::title
title(item) ==
    CASE item.variant = "Rss" -> item.item.title
      [] item.variant = "Atom" -> Some(item.entry.title)
      [] item.variant = "Static" -> Some(item.static.title)

(***************************************************************************)
(* source.rs: SourceError and Feed::from_source.                           *)
(***************************************************************************)
FetchError(e) == [kind |-> "FetchError", detail |-> e]

ParseError(msg) == [kind |-> "ParseError", detail |-> msg]

AudioDownloadError(e) == [kind |-> "AudioDownloadError", detail |-> e]

\* impl Display for SourceError: the prefix and the wrapped value
DisplaySourceError(e) ==
    CASE e.kind = "FetchError" -> <<"Fetch error: {}", e.detail>>
      [] e.kind = "ParseError" -> <<"Parse error: {}", e.detail>>
      [] e.kind = "AudioDownloadError" -> <<"Audio download error: {}", e.detail>>

\* The bytes of a response body, by what each decoder makes of them:
\* rss::Channel::read_from and atom_syndication::Feed::read_from.
Body(r, a) == [rss |-> r, atom |-> a]

Garbage == Body(None, None)

\* An HTTP exchange: transport is "ok", "connect" (reqwest::get fails) or
\* "body" (reading the bytes fails); status is the response's status code.
Http(t, st, b) == [transport |-> t, status |-> st, body |-> b]

HttpStatuses == {200, 404}

FromSourceAllParseErrors(http) ==
    IF http.transport # "ok" THEN Err(ParseError(http.transport))
    ELSE IF IsSome(http.body.rss) THEN Ok(FeedRss(Unwrap(http.body.rss)))
    ELSE IF IsSome(http.body.atom) THEN Ok(FeedAtom(Unwrap(http.body.atom)))
    ELSE Err(ParseError("Could not parse as RSS or Atom feed"))

FromSourceAtomFirst(http) ==
    IF http.transport # "ok" THEN Err(FetchError(http.transport))
    ELSE IF IsSome(http.body.atom) THEN Ok(FeedAtom(Unwrap(http.body.atom)))
    ELSE IF IsSome(http.body.rss) THEN Ok(FeedRss(Unwrap(http.body.rss)))
    ELSE Err(ParseError("Could not parse as RSS or Atom feed"))

\* Feed::from_source, given the exchange the GET of source.url turns out to be
from_source(http) ==
    IF http.transport # "ok" THEN Err(FetchError(http.transport))
    ELSE IF IsSome(http.body.rss) THEN Ok(FeedRss(Unwrap(http.body.rss)))
    ELSE IF IsSome(http.body.atom) THEN Ok(FeedAtom(Unwrap(http.body.atom)))
    ELSE Err(ParseError("Could not parse as RSS or Atom feed"))

(***************************************************************************)
(* lingq.rs: LingqClient::get_lesson_titles.                               *)
(***************************************************************************)
\* The exchange with the catalog: body is the LingqCourse the JSON decodes
\* to (its lessons' titles), or None when it does not decode.
get_lesson_titles(http) ==
    IF http.transport # "ok" THEN Err("transport")
    ELSE IF http.status >= 400 THEN Err("status")
    ELSE IF ~IsSome(http.body) THEN Err("decode")
    ELSE Ok(Unwrap(http.body))

(***************************************************************************)
(* config.rs: sources, tags, LqcliConfig::filtered_sources.                *)
(***************************************************************************)
Source(name, tags) == [name |-> name, tags |-> tags]

TagFilterAll(source, tags) ==
    IF IsSome(source.tags)
    THEN \A n \in 1..Len(Unwrap(source.tags)) : Contains(tags, Unwrap(source.tags)[n])
    ELSE FALSE

\* the closure of filtered_sources: does the source pass the tag filter
TagFilter(source, tags) ==
    IF IsSome(source.tags)
    THEN \E n \in 1..Len(Unwrap(source.tags)) : Contains(tags, Unwrap(source.tags)[n])
    ELSE FALSE

FilteredSourcesNoEarlyReturn(sources, tags) ==
    LET Keep(source) == TagFilter(source, tags)
    IN  SelectSeq(sources, Keep)

\* LqcliConfig::filtered_sources
filtered_sources(sources, tags) ==
    IF Len(tags) = 0 THEN sources
    ELSE LET Keep(source) == TagFilter(source, tags)
         IN  SelectSeq(sources, Keep)

\* impl Display for Tags: the tags joined, nothing for an absent list
DisplayTags(tags) == IF IsSome(tags) THEN Unwrap(tags) ELSE <<>>

\* Table::new(filtered_sources): one row per source
Table(sources) == [n \in 1..Len(sources) |->
                      [name |-> sources[n].name, tags |-> DisplayTags(sources[n].tags)]]

(***************************************************************************)
(* What a run can meet: configurations, command lines, HTTP exchanges.     *)
(***************************************************************************)
\* number of feed items a sync looks at: feed.items(5)
ItemCount == 5

SourceTagsRun == {None, Some(<<"daily">>)}

CliTagsRun == {None, Some(<<"daily">>)}

\* configurations of up to n sources, the k-th source named SourceNames[k]
Configs(n, tagOptions) ==
    UNION {{[k \in 1..m |-> Source(SourceNames[k], t[k])] : t \in [1..m -> tagOptions]} : m \in 0..n}

\* Cli::parse: the Sources subcommand, its tags option and its dry-run flag
CliArgs == [cmd : {"sync", "list"}, tags : CliTagsRun, dry_run : BOOLEAN]

\* the catalog's answers: no connection, an error status with a body that is no
\* course, a 200 that is no course, a course without lessons, a course with one
CatalogExchanges ==
    {Http("connect", 0, None), Http("ok", 404, None), Http("ok", 200, None),
     Http("ok", 200, Some(<<>>)), Http("ok", 200, Some(<<"news">>))}

\* the documents served: no feed, the RSS and Atom feeds up to MaxFeedLen entries,
\* a document both decoders accept, a 3-item enclosure feed whose second
\* item has no enclosure, and feeds of more than 5 entries (LongFeeds)
LongFeeds ==
    {Body(Some([n \in 1..6 |-> IF n <= 5
                               THEN [title |-> Some("News"), enclosure |-> Some([url |-> "u1"])]
                               ELSE [title |-> None, enclosure |-> Some([url |-> "u1"])]]),
          None),
     Body(None,
          Some([n \in 1..7 |-> IF n <= 5
                               THEN [title |-> "news", links |-> <<[href |-> "u2"], [href |-> "u1"]>>]
                               ELSE [title |-> "News", links |-> <<>>]]))}

FeedBodies ==
    {Garbage}
    \cup LongFeeds
    \cup {Body(Some(c), None) : c \in SeqsUpTo(RssItemsRun, MaxFeedLen)}
    \cup {Body(None, Some(e)) : e \in SeqsUpTo(AtomEntriesRun, MaxFeedLen)}
    \cup {Body(Some(<<[title |-> Some("News"), enclosure |-> None]>>),
               Some(<<[title |-> "news", links |-> <<>>]>>))}
    \cup {Body(Some(<<[title |-> Some("News"), enclosure |-> Some([url |-> "u1"])],
                      [title |-> Some("News"), enclosure |-> None],
                      [title |-> Some("news"), enclosure |-> Some([url |-> "u1"])]>>),
               None)}

\* what a server sends with a 404: an error page, or (rarely) a feed document
ErrorPageBodies == {Garbage, Body(Some(<<>>), None)}

FeedExchanges ==
    {Http("connect", 0, Garbage), Http("body", 200, Garbage)}
    \cup {Http("ok", 200, b) : b \in FeedBodies}
    \cup {Http("ok", 404, b) : b \in ErrorPageBodies}

(***************************************************************************)
(* State.                                                                  *)
(***************************************************************************)
VARIABLES
    cfg_file,       \* the configuration file: "ok", "missing", "unreadable", or
                    \* "bad_api_key" (it reads, but lingq.api_key is no legal header value)
    config,         \* LqcliConfig.sources, as read from the file
    cli,            \* the parsed command line
    pc,             \* where main() is
    filtered,       \* filtered_sources: the selection being walked or listed
    i,              \* position of the current source in the selection
    catalog,        \* the exchange the current source's catalog request turned out to be
    lesson_titles,  \* the existing titles of the current source
    fetched,        \* the exchange the current source's feed GET turned out to be
    feed,           \* Option<Feed>: the feed resolved for the current source
    items,          \* feed.items(5) of the current source
    j,              \* position of the current item in items
    resolved,       \* positions of the current source's items whose audio link was resolved
    calls,          \* the network requests of the run, in order
    out,            \* the lines printed since the current source's sync began
    done,           \* the sources whose sync has ended, in order, with how it ended
    call,           \* FnSpec, DlSpec: the function applied and its arguments
    ret,            \* FnSpec, DlSpec: Option of the value returned
    fs,             \* DlSpec: the paths that exist in the temporary directory
    tmpfile,        \* DlSpec: Option of the path of yt_dlp's live NamedTempFile
    output          \* DlSpec: Option of the std::process::Output of the yt-dlp run

vars == <<cfg_file, config, cli, pc, filtered, i, catalog, lesson_titles, fetched, feed, items, j,
          resolved, calls, out, done, call, ret, fs, tmpfile, output>>

dlVars == <<fs, tmpfile, output>>

loopVars == <<catalog, lesson_titles, fetched, feed, items, j, resolved>>

\* println! / eprintln!: the format string and its arguments
Println(fmt, args) == [stream |-> "stdout", fmt |-> fmt, args |-> args]

Eprintln(fmt, args) == [stream |-> "stderr", fmt |-> fmt, args |-> args]

NoExchange == Http("none", 0, Garbage)

NoCall == [fn |-> "none"]

(***************************************************************************)
(* main(): configuration check and dispatch.                               *)
(***************************************************************************)
Init ==
    /\ cfg_file \in {"ok", "missing", "unreadable", "bad_api_key"}
    /\ config \in Configs(MaxSources, SourceTagsRun)
    /\ cli \in CliArgs
    /\ pc = "main"
    /\ filtered = <<>>
    /\ i = 0
    /\ catalog = NoExchange
    /\ lesson_titles = <<>>
    /\ fetched = NoExchange
    /\ feed = None
    /\ items = <<>>
    /\ j = 0
    /\ resolved = <<>>
    /\ calls = <<>>
    /\ out = <<>>
    /\ done = <<>>
    /\ call = NoCall
    /\ ret = None
    /\ fs = {}
    /\ tmpfile = None
    /\ output = None

\* LqcliConfig::exists and LqcliConfig::read, process::exit(1) on failure
LoadConfig ==
    /\ pc = "main"
    /\ IF cfg_file = "missing"
       THEN /\ out' = <<Eprintln("Configuration file {} does not exist", <<"config_file">>)>>
            /\ pc' = "exit1"
       ELSE IF cfg_file = "unreadable"
       THEN /\ out' = <<Eprintln("Error reading configuration file: {}", <<"io::Error">>)>>
            /\ pc' = "exit1"
       ELSE /\ out' = out
            /\ pc' = "client"
    /\ UNCHANGED <<cfg_file, config, cli, filtered, i, loopVars, calls, done, call, ret, dlVars>>

\* LingqClient::new: HeaderValue::from_str(..).unwrap() on the configured key
NewLingqClient ==
    /\ pc = "client"
    /\ pc' = IF cfg_file = "bad_api_key" THEN "panicked" ELSE "dispatch"
    /\ UNCHANGED <<cfg_file, config, cli, filtered, i, loopVars, calls, out, done, call, ret,
                   dlVars>>

\* SourcesSubcommand::List
List ==
    /\ pc = "dispatch"
    /\ cli.cmd = "list"
    /\ filtered' = filtered_sources(config, unwrap_or_default(cli.tags))
    /\ out' = <<Println("{}", <<Table(filtered')>>)>>
    /\ pc' = "done"
    /\ UNCHANGED <<cfg_file, config, cli, i, loopVars, calls, done, call, ret, dlVars>>

(***************************************************************************)
(* main(): SourcesSubcommand::Sync.                                        *)
(***************************************************************************)
\* the for loop over filtered_sources: on to the source after position idx of n
NextSourceSkipTitles(idx, n) == [pc |-> IF idx + 1 <= n THEN "feed" ELSE "done", i |-> idx + 1]

NextSource(idx, n) == [pc |-> IF idx + 1 <= n THEN "titles" ELSE "done", i |-> idx + 1]

OnFeedErrorExit(idx, n) == [pc |-> "exit1", i |-> idx]

OnFeedErrorRetry(idx, n) == [pc |-> "feed", i |-> idx]

OnFeedErrorReturn(idx, n) == [pc |-> "done", i |-> idx]

\* Err(e) arm of the from_source match: `continue`
OnFeedError(idx, n) == NextSource(idx, n)

OnTitlesResultSilent(name, res) ==
    IF res.ok THEN [lines |-> <<>>, titles |-> res.val] ELSE [lines |-> <<>>, titles |-> <<>>]

\* unwrap_or_else on the lesson titles: the lines printed and the titles used
OnTitlesResult(name, res) ==
    IF res.ok THEN [lines |-> <<>>, titles |-> res.val]
    ELSE [lines |-> <<Eprintln("Error getting lesson titles for {}: {}", <<name, res.err>>)>>,
          titles |-> <<>>]

ProcessOneLinkFirst(item, titles, name) ==
    IF ~IsSome(title(item))
    THEN [line |-> Eprintln("No title found for item in {}", <<name>>), linked |-> FALSE]
    ELSE IF ~IsSome(get_audio_link(item))
    THEN [line |-> Eprintln("No audio link found for {}", <<name>>), linked |-> TRUE]
    ELSE IF Contains(titles, Unwrap(title(item)))
    THEN [line |-> Println("Skipping existing lesson: {}", <<Unwrap(title(item))>>),
          linked |-> TRUE]
    ELSE [line |-> Println("{}: {}", <<UnwrapOr(title(item), "<unknown>"),
                                        Unwrap(get_audio_link(item))>>),
          linked |-> TRUE]

\* the body of `for item in items`, for one item: what is printed and whether
\* get_audio_link was called
ProcessOne(item, titles, name) ==
    IF IsSome(title(item))
    THEN IF Contains(titles, Unwrap(title(item)))
         THEN [line |-> Println("Skipping existing lesson: {}", <<Unwrap(title(item))>>),
               linked |-> FALSE]
         ELSE IF IsSome(get_audio_link(item))
         THEN [line |-> Println("{}: {}", <<UnwrapOr(title(item), "<unknown>"),
                                             Unwrap(get_audio_link(item))>>),
               linked |-> TRUE]
         ELSE [line |-> Eprintln("No audio link found for {}", <<name>>), linked |-> TRUE]
    ELSE [line |-> Eprintln("No title found for item in {}", <<name>>), linked |-> FALSE]

\* the Sync arm up to the loop: the selection by tags (dry_run is bound and not read)
SyncBegin ==
    /\ pc = "dispatch"
    /\ cli.cmd = "sync"
    /\ filtered' = filtered_sources(config, unwrap_or_default(cli.tags))
    /\ LET nx == NextSource(0, Len(filtered'))
       IN  pc' = nx.pc /\ i' = nx.i
    /\ UNCHANGED <<cfg_file, config, cli, loopVars, calls, out, done, call, ret, dlVars>>

\* loop head: "Syncing source", then get_lesson_titles(..).await.unwrap_or_else(..)
GetLessonTitles ==
    /\ pc = "titles"
    /\ \E http \in CatalogExchanges :
         LET name == filtered[i].name
             r == OnTitlesResult(name, get_lesson_titles(http))
         IN  /\ catalog' = http
             /\ lesson_titles' = r.titles
             /\ out' = <<Println("Syncing source: {}", <<name>>)>> \o r.lines
             /\ calls' = Append(calls, [op |-> "get_lesson_titles", source |-> name])
    /\ fetched' = NoExchange
    /\ feed' = None
    /\ items' = <<>>
    /\ j' = 0
    /\ resolved' = <<>>
    /\ pc' = "feed"
    /\ UNCHANGED <<cfg_file, config, cli, filtered, i, done, call, ret, dlVars>>

\* Feed::from_source(&source).await, then feed.items(5) or the error and `continue`
FeedFromSource ==
    /\ pc = "feed"
    /\ \E http \in FeedExchanges :
         LET name == filtered[i].name
             res == from_source(http)
         IN  /\ fetched' = http
             /\ calls' = Append(calls, [op |-> "from_source", source |-> name])
             /\ IF res.ok
                THEN /\ feed' = Some(res.val)
                     /\ items' = Items(res.val, ItemCount)
                     /\ out' = out
                     /\ IF Len(items') = 0
                        THEN /\ done' = Append(done, [source |-> name, feed_ok |-> TRUE])
                             /\ LET nx == NextSource(i, Len(filtered))
                                IN  pc' = nx.pc /\ i' = nx.i /\ j' = 0
                        ELSE /\ done' = done
                             /\ pc' = "item" /\ i' = i /\ j' = 1
                ELSE /\ feed' = None
                     /\ items' = <<>>
                     /\ out' = Append(out, Eprintln("Error getting items for {}: {}",
                                                    <<name, DisplaySourceError(res.err)>>))
                     /\ done' = Append(done, [source |-> name, feed_ok |-> FALSE])
                     /\ LET nx == OnFeedError(i, Len(filtered))
                        IN  pc' = nx.pc /\ i' = nx.i /\ j' = 0
    /\ UNCHANGED <<cfg_file, config, cli, filtered, catalog, lesson_titles, resolved, call, ret, dlVars>>

ProcessItemAbortOnFailure ==
    /\ pc = "item"
    /\ LET name == filtered[i].name
           r == ProcessOne(items[j], lesson_titles, name)
       IN  /\ out' = Append(out, r.line)
           /\ resolved' = IF r.linked THEN Append(resolved, j) ELSE resolved
           /\ IF j < Len(items) /\ r.line.fmt = "{}: {}"
              THEN /\ j' = j + 1
                   /\ UNCHANGED <<pc, i, done>>
              ELSE /\ done' = Append(done, [source |-> name, feed_ok |-> TRUE])
                   /\ LET nx == NextSource(i, Len(filtered))
                      IN  pc' = nx.pc /\ i' = nx.i /\ j' = 0
    /\ UNCHANGED <<cfg_file, config, cli, filtered, catalog, lesson_titles, fetched, feed,
                   items, calls, call, ret, dlVars>>

ProcessItemRemembering ==
    /\ pc = "item"
    /\ LET name == filtered[i].name
           r == ProcessOne(items[j], lesson_titles, name)
           t == title(items[j])
       IN  /\ out' = Append(out, r.line)
           /\ lesson_titles' = IF IsSome(t) THEN Append(lesson_titles, Unwrap(t))
                               ELSE lesson_titles
           /\ resolved' = IF r.linked THEN Append(resolved, j) ELSE resolved
           /\ IF j < Len(items)
              THEN /\ j' = j + 1
                   /\ UNCHANGED <<pc, i, done>>
              ELSE /\ done' = Append(done, [source |-> name, feed_ok |-> TRUE])
                   /\ LET nx == NextSource(i, Len(filtered))
                      IN  pc' = nx.pc /\ i' = nx.i /\ j' = 0
    /\ UNCHANGED <<cfg_file, config, cli, filtered, catalog, fetched, feed,
                   items, calls, call, ret, dlVars>>

\* one iteration of `for item in items`
ProcessItem ==
    /\ pc = "item"
    /\ LET name == filtered[i].name
           r == ProcessOne(items[j], lesson_titles, name)
       IN  /\ out' = Append(out, r.line)
           /\ resolved' = IF r.linked THEN Append(resolved, j) ELSE resolved
           /\ IF j < Len(items)
              THEN /\ j' = j + 1
                   /\ UNCHANGED <<pc, i, done>>
              ELSE /\ done' = Append(done, [source |-> name, feed_ok |-> TRUE])
                   /\ LET nx == NextSource(i, Len(filtered))
                      IN  pc' = nx.pc /\ i' = nx.i /\ j' = 0
    /\ UNCHANGED <<cfg_file, config, cli, filtered, catalog, lesson_titles, fetched, feed,
                   items, calls, call, ret, dlVars>>

Next ==
    \/ LoadConfig
    \/ NewLingqClient
    \/ List
    \/ SyncBegin
    \/ GetLessonTitles
    \/ FeedFromSource
    \/ ProcessItem

Spec == Init /\ [][Next]_vars

\* main() is one task that is always scheduled: a step that can be taken is taken
FairSpec == Init /\ [][Next]_vars /\ WF_vars(Next)

(***************************************************************************)
(* FnSpec: the pure functions applied to inputs drawn from bounded sets.   *)
(***************************************************************************)
ContentTypes == {"Syndication"}

SourceTagsAll == {None, Some(<<>>), Some(<<"daily">>), Some(<<"Daily">>),
                  Some(<<"weekly", "daily">>)}

CliTagsAll == {None, Some(<<>>), Some(<<"daily">>), Some(<<"Daily">>),
               Some(<<"daily", "hourly">>)}

FeedsAll ==
    {FeedRss(c) : c \in SeqsUpTo(RssItemsAll, MaxEntries)}
    \cup {FeedAtom(e) : e \in SeqsUpTo(AtomEntriesAll, MaxEntries)}

SourceItemsAll ==
    {SourceItemRss(x) : x \in RssItemsAll}
    \cup {SourceItemAtom(e) : e \in AtomEntriesAll}
    \cup {from_url_and_title(u, t) : u \in Hrefs, t \in Titles}

\* titles that differ in case or in trailing whitespace only
DedupTitles == {"News", "news", "news "}

DedupItems ==
    {SourceItemRss([title |-> t, enclosure |-> en]) :
        t \in {None} \cup {Some(x) : x \in DedupTitles}, en \in {None, Some([url |-> "u1"])}}
    \cup {SourceItemAtom([title |-> t, links |-> l]) :
            t \in DedupTitles, l \in {<<>>, <<[href |-> "u2"]>>}}

\* feed GETs whose bytes decode as RSS, as Atom, as both or as neither
FeedExchangesAll ==
    {Http("connect", 0, Garbage), Http("body", 200, Garbage)}
    \cup {Http("ok", st, Body(r, a)) :
            st \in HttpStatuses,
            r \in {None} \cup {Some(c) : c \in SeqsUpTo(RssItemsRun, 1)},
            a \in {None} \cup {Some(en) : en \in SeqsUpTo(AtomEntriesRun, 1)}}

FnCalls ==
    {[fn |-> "filtered_sources", sources |-> c, tags |-> t] :
        c \in Configs(MaxCfgSources, SourceTagsAll), t \in CliTagsAll}
    \cup {[fn |-> "items", feed |-> f, count |-> n] : f \in FeedsAll, n \in 0..MaxCount}
    \cup {[fn |-> "get_audio_link", item |-> x, content_type |-> ct] :
            x \in SourceItemsAll, ct \in ContentTypes}
    \cup {[fn |-> "title", item |-> x] : x \in SourceItemsAll}
    \cup {[fn |-> "from_source", http |-> h] : h \in FeedExchangesAll}
    \cup {[fn |-> "process_one", item |-> x, titles |-> ts, source |-> nm] :
            x \in DedupItems, ts \in SeqsUpTo(DedupTitles, MaxSnapshot), nm \in {"s1", "s2"}}

FnInit ==
    /\ call \in FnCalls
    /\ ret = None
    /\ pc = "call"
    /\ cfg_file = "ok"
    /\ config = <<>>
    /\ cli = [cmd |-> "list", tags |-> None, dry_run |-> FALSE]
    /\ filtered = <<>>
    /\ i = 0
    /\ catalog = NoExchange
    /\ lesson_titles = <<>>
    /\ fetched = NoExchange
    /\ feed = None
    /\ items = <<>>
    /\ j = 0
    /\ resolved = <<>>
    /\ calls = <<>>
    /\ out = <<>>
    /\ done = <<>>
    /\ fs = {}
    /\ tmpfile = None
    /\ output = None

runVars == <<cfg_file, config, cli, filtered, i, loopVars, calls, out, done>>

\* config.filtered_sources(&tags.unwrap_or_default())
ApplyFilteredSources ==
    /\ pc = "call"
    /\ call.fn = "filtered_sources"
    /\ ret' = Some(filtered_sources(call.sources, unwrap_or_default(call.tags)))
    /\ pc' = "returned"
    /\ UNCHANGED <<call, runVars, dlVars>>

\* feed.items(count)
ApplyItems ==
    /\ pc = "call"
    /\ call.fn = "items"
    /\ ret' = Some(Items(call.feed, call.count))
    /\ pc' = "returned"
    /\ UNCHANGED <<call, runVars, dlVars>>

\* item.get_audio_link(), the item belonging to a source of the given content type
ApplyGetAudioLink ==
    /\ pc = "call"
    /\ call.fn = "get_audio_link"
    /\ ret' = Some(get_audio_link(call.item))
    /\ pc' = "returned"
    /\ UNCHANGED <<call, runVars, dlVars>>

\* item.title()
ApplyTitle ==
    /\ pc = "call"
    /\ call.fn = "title"
    /\ ret' = Some(title(call.item))
    /\ pc' = "returned"
    /\ UNCHANGED <<call, runVars, dlVars>>

ApplyFromSource ==
    /\ pc = "call"
    /\ call.fn = "from_source"
    /\ ret' = Some(from_source(call.http))
    /\ pc' = "returned"
    /\ UNCHANGED <<call, runVars, dlVars>>

\* the body of `for item in items` applied to one item
ApplyProcessOne ==
    /\ pc = "call"
    /\ call.fn = "process_one"
    /\ ret' = Some(ProcessOne(call.item, call.titles, call.source))
    /\ pc' = "returned"
    /\ UNCHANGED <<call, runVars, dlVars>>

FnNext ==
    \/ ApplyFilteredSources
    \/ ApplyItems
    \/ ApplyGetAudioLink
    \/ ApplyTitle
    \/ ApplyFromSource
    \/ ApplyProcessOne

FnSpec == FnInit /\ [][FnNext]_vars

(***************************************************************************)
(* DlSpec: SourceItem::download_audio, that is fetch() and yt_dlp(), step   *)
(* by step, with the temporary directory and the external tool as the      *)
(* environment.                                                            *)
(***************************************************************************)
\* std::io::Error: where it arose, and its message
IoError(op, msg) == [op |-> op, msg |-> msg]

\* the names NamedTempFile::with_suffix(".mp3") may pick
TmpPaths == {"tmpA.mp3", "tmpB.mp3"}

\* bytes of a stderr: 'E', the two bytes of U+00E9 in UTF-8, and a byte that is
\* valid nowhere in UTF-8
StderrBytes == {69, 195, 169, 255}

\* what yt-dlp wrote to its stderr, as bytes
Stderrs == SeqsUpTo(StderrBytes, MaxStderr)

RECURSIVE from_utf8_lossy(_)
\* String::from_utf8_lossy: the code points of the bytes, U+FFFD for every
\* byte that is part of no valid sequence
from_utf8_lossy(bytes) ==
    IF bytes = <<>> THEN <<>>
    ELSE IF bytes[1] < 128 THEN <<bytes[1]>> \o from_utf8_lossy(Tail(bytes))
    ELSE IF /\ bytes[1] \in 194..223
            /\ Len(bytes) >= 2
            /\ bytes[2] \in 128..191
         THEN <<(bytes[1] - 192) * 64 + (bytes[2] - 128)>> \o from_utf8_lossy(Tail(Tail(bytes)))
    ELSE <<65533>> \o from_utf8_lossy(Tail(bytes))

\* one run of yt-dlp: its exit status, its stderr, and whether it left the
\* output file in place ("written") or took it away ("removed")
ToolRuns == [status : {0, 1}, stderr : Stderrs, file : {"written", "removed"}]

\* the bytes of the output file
Contents == {<<>>, <<1, 2>>}

DlCalls ==
    {[fn |-> "download_audio", item |-> x, method |-> "YtDlp"] : x \in SourceItemsAll}

DlInit ==
    /\ call \in DlCalls
    /\ ret = None
    /\ pc = "fetch"
    /\ fs \in {{}, {"other.mp3"}}
    /\ tmpfile = None
    /\ output = None
    /\ cfg_file = "ok"
    /\ config = <<>>
    /\ cli = [cmd |-> "transcribe", tags |-> None, dry_run |-> FALSE]
    /\ filtered = <<>>
    /\ i = 0
    /\ catalog = NoExchange
    /\ lesson_titles = <<>>
    /\ fetched = NoExchange
    /\ feed = None
    /\ items = <<>>
    /\ j = 0
    /\ resolved = <<>>
    /\ calls = <<>>
    /\ out = <<>>
    /\ done = <<>>

KeepTmpfile(files, handle) == files

\* the NamedTempFile going out of scope: the file at its path is removed
DropTmpfile(files, handle) ==
    IF IsSome(handle) THEN files \ {Unwrap(handle)} ELSE files

\* yt_dlp(&link).map_err(SourceError::from)
MapErr(r) == IF r.ok THEN r ELSE Err(AudioDownloadError(r.err))

\* a return of yt_dlp, by `?`, by `return Err(..)` or by the final Ok(content)
YtDlpReturn(r) ==
    /\ ret' = Some(MapErr(r))
    /\ fs' = DropTmpfile(fs, tmpfile)
    /\ tmpfile' = None
    /\ pc' = "returned"

\* fetch: item.get_audio_link().unwrap(), then the match on the method
Fetch ==
    /\ pc = "fetch"
    /\ pc' = IF IsSome(get_audio_link(call.item)) THEN "tmpfile" ELSE "panicked"
    /\ UNCHANGED <<call, ret, runVars, dlVars>>

\* NamedTempFile::with_suffix(".mp3")?
CreateTmpfile ==
    /\ pc = "tmpfile"
    /\ \E created \in BOOLEAN, p \in TmpPaths \ fs :
         IF created
         THEN /\ fs' = fs \cup {p}
              /\ tmpfile' = Some(p)
              /\ pc' = "spawn"
              /\ ret' = ret
         ELSE YtDlpReturn(Err(IoError("tempfile", "")))
    /\ UNCHANGED <<call, runVars, output>>

\* Command::new("yt-dlp") ... .output()?
RunTool ==
    /\ pc = "spawn"
    /\ \E spawned \in BOOLEAN, run \in ToolRuns :
         IF spawned
         THEN /\ output' = Some([status |-> run.status, stderr |-> run.stderr])
              /\ fs' = IF run.file = "removed" THEN fs \ {Unwrap(tmpfile)} ELSE fs
              /\ pc' = "status"
              /\ UNCHANGED <<ret, tmpfile>>
         ELSE /\ YtDlpReturn(Err(IoError("spawn", "")))
              /\ output' = output
    /\ UNCHANGED <<call, runVars>>

\* if !output.status.success() { return Err(..) }
CheckStatus ==
    /\ pc = "status"
    /\ IF Unwrap(output).status # 0
       THEN YtDlpReturn(Err(IoError("Other", <<"yt-dlp failed: {}",
                                                from_utf8_lossy(Unwrap(output).stderr)>>)))
       ELSE /\ pc' = "open"
            /\ UNCHANGED <<ret, fs, tmpfile>>
    /\ UNCHANGED <<call, runVars, output>>

\* File::open(tmpfile_path)?
OpenTmpfile ==
    /\ pc = "open"
    /\ \E opened \in BOOLEAN :
         IF opened /\ Unwrap(tmpfile) \in fs
         THEN /\ pc' = "read"
              /\ UNCHANGED <<ret, fs, tmpfile>>
         ELSE YtDlpReturn(Err(IoError("open", "")))
    /\ UNCHANGED <<call, runVars, output>>

\* tmpfile_reopened.read_to_end(&mut content)?; Ok(content)
ReadTmpfile ==
    /\ pc = "read"
    /\ \E read \in BOOLEAN, content \in Contents :
         IF read
         THEN YtDlpReturn(Ok(content))
         ELSE YtDlpReturn(Err(IoError("read", "")))
    /\ UNCHANGED <<call, runVars, output>>

DlNext ==
    \/ Fetch
    \/ CreateTmpfile
    \/ RunTool
    \/ CheckStatus
    \/ OpenTmpfile
    \/ ReadTmpfile

DlSpec == DlInit /\ [][DlNext]_vars

(***************************************************************************)
(* Vocabulary of the properties.                                           *)
(***************************************************************************)
SkipFmt == "Skipping existing lesson: {}"

NoTitleFmt == "No title found for item in {}"

LinkedFmt == "{}: {}"

NoLinkFmt == "No audio link found for {}"

FeedErrFmt == "Error getting items for {}: {}"

TitlesErrFmt == "Error getting lesson titles for {}: {}"

\* the outcome a printed item line stands for
Outcome(line) ==
    CASE line.fmt = SkipFmt -> "ItemSkipped"
      [] line.fmt = NoTitleFmt -> "ItemFailed:missing-title"
      [] line.fmt = NoLinkFmt -> "ItemFailed:missing-link"
      [] line.fmt = LinkedFmt -> "ItemLinked"
      [] OTHER -> "none"

\* number of items of the current source that have been through the loop body
Processed == IF pc = "item" THEN j - 1 ELSE Len(items)

\* the line printed for the n-th item of the current source
ItemLine(n) == out[Len(out) - Processed + n]

\* the outcomes of the current source's processed items, in order
Outcomes == [n \in 1..Processed |-> Outcome(ItemLine(n))]

InSync == cli.cmd = "sync" /\ pc \in {"titles", "feed", "item", "done"}

\* a source's sync has just ended: out, items, fetched are those of done[Len(done)]
AtSourceEnd == InSync /\ pc \in {"titles", "done"} /\ Len(done) >= 1

SyncEnded == cli.cmd = "sync" /\ pc = "done"

Requested(op, name) == \E n \in 1..Len(calls) : calls[n].op = op /\ calls[n].source = name

SetOf(v) == {v[n] : n \in 1..Len(v)}

Min(a, b) == IF a <= b THEN a ELSE b

(***************************************************************************)
(* C1..C10.                                                                *)
(***************************************************************************)
\* C1 (as claimed): in a sync run with the dry-run flag set, no catalog request
\* and no feed fetch is ever made.
C1_DryRunMakesNoCalls == (cli.cmd = "sync" /\ cli.dry_run) => calls = <<>>

\* C2: a source whose feed resolution fails ends with the error reported and no
\* item processed, and every source after it in the selection still gets its
\* title fetch and its feed resolution.
C2_FeedFailureIsolated ==
    /\ (AtSourceEnd /\ ~done[Len(done)].feed_ok) =>
          /\ out[Len(out)].fmt = FeedErrFmt
          /\ out[Len(out)].stream = "stderr"
          /\ out[Len(out)].args[1] = done[Len(done)].source
          /\ \A n \in 1..Len(out) : Outcome(out[n]) = "none"
          /\ items = <<>> /\ resolved = <<>>
    /\ SyncEnded =>
          \A n \in 1..Len(done) :
             ~done[n].feed_ok =>
                /\ done[n].source = filtered[n].name
                /\ \A m \in (n + 1)..Len(filtered) :
                      /\ Requested("get_lesson_titles", filtered[m].name)
                      /\ Requested("from_source", filtered[m].name)

C2_Witness ==
    /\ SyncEnded /\ Len(filtered) = 2 /\ Len(done) = 2
    /\ ~done[1].feed_ok /\ done[2].feed_ok
    /\ Requested("from_source", filtered[2].name)
    /\ Processed >= 1

\* C3 (as claimed): a feed GET answered with status 404 ends the source's sync
\* with a reported FetchError and no item processed.
C3_NotFoundIsFetchError ==
    (InSync /\ fetched.transport = "ok" /\ fetched.status = 404) =>
        /\ AtSourceEnd
        /\ ~done[Len(done)].feed_ok
        /\ out[Len(out)].fmt = FeedErrFmt
        /\ out[Len(out)].args[2][1] = "Fetch error: {}"
        /\ items = <<>>

\* C4: when the catalog title fetch of a source fails, the failure is logged,
\* the existing-titles snapshot is empty, no item of the source is skipped as a
\* duplicate, and with a resolved feed every one of its items is processed.
C4_CatalogFailureDegrades ==
    (InSync /\ catalog.transport # "none" /\ ~get_lesson_titles(catalog).ok) =>
        /\ lesson_titles = <<>>
        /\ Len(out) >= 2
        /\ out[2].fmt = TitlesErrFmt /\ out[2].stream = "stderr"
        /\ out[2].args[1] = out[1].args[1]
        /\ \A n \in 1..Len(out) : Outcome(out[n]) # "ItemSkipped"
        /\ (AtSourceEnd /\ done[Len(done)].feed_ok) =>
              /\ Processed = Len(items)
              /\ Len(out) = 2 + Len(items)
              /\ \A n \in 1..Len(items) : Outcome(ItemLine(n)) # "none"

C4_Witness ==
    /\ AtSourceEnd /\ done[Len(done)].feed_ok
    /\ catalog.transport = "ok" /\ catalog.status = 404
    /\ lesson_titles = <<>>
    /\ Len(items) = 2
    /\ title(items[1]) = Some("news") /\ Outcome(ItemLine(1)) = "ItemLinked"

\* the outcome the priority order of C5 gives an item
C5_Expected(item, titles) ==
    IF title(item) = None THEN "ItemFailed:missing-title"
    ELSE IF Unwrap(title(item)) \in SetOf(titles) THEN "ItemSkipped"
    ELSE IF get_audio_link(item) = None THEN "ItemFailed:missing-link"
    ELSE "ItemLinked"

\* C5: every processed item has exactly one outcome, by the priority order
\* missing title, duplicate (audio link not resolved), missing link, linked; a
\* 3-item enclosure feed whose item 2 has no enclosure and whose item 3 is in the
\* snapshot gives linked, missing-link, duplicate.
C5_ItemOutcomePriority ==
    InSync =>
        /\ Processed <= Len(out)
        /\ \A n \in 1..Len(out) : (Outcome(out[n]) # "none") <=> (n > Len(out) - Processed)
        /\ \A n \in 1..Processed :
              /\ Outcome(ItemLine(n)) = C5_Expected(items[n], lesson_titles)
              /\ (n \in SetOf(resolved)) <=>
                    (title(items[n]) # None /\ Unwrap(title(items[n])) \notin SetOf(lesson_titles))
        /\ (/\ Processed = 3 /\ Len(items) = 3
            /\ \A n \in 1..3 : items[n].variant = "Rss" /\ items[n].item.title # None
            /\ items[1].item.enclosure # None
            /\ items[1].item.title[1] \notin SetOf(lesson_titles)
            /\ items[2].item.enclosure = None
            /\ items[2].item.title[1] \notin SetOf(lesson_titles)
            /\ items[3].item.title[1] \in SetOf(lesson_titles))
           => Outcomes = <<"ItemLinked", "ItemFailed:missing-link", "ItemSkipped">>

C5_Witness ==
    /\ AtSourceEnd /\ Len(items) = 3
    /\ lesson_titles = <<"news">>
    /\ items[2].variant = "Rss" /\ items[2].item.enclosure = None
    /\ items[3].variant = "Rss" /\ items[3].item.title = Some("news")
    /\ Outcomes = <<"ItemLinked", "ItemFailed:missing-link", "ItemSkipped">>
    /\ resolved = <<1, 2>>

\* C6 (as claimed): every item with a new title and a present audio link is
\* handed to the download collaborator, which is invoked for its link.
C6_LinkedItemsAreDownloaded ==
    InSync =>
        \A n \in 1..Processed :
            Outcome(ItemLine(n)) = "ItemLinked" =>
                \E m \in 1..Len(calls) :
                    /\ calls[m].op = "download_audio"
                    /\ calls[m].url = ItemLine(n).args[2]

\* the tags of a source as a set: none for an absent list
C7_TagsOf(source) == IF source.tags = None THEN {} ELSE SetOf(source.tags[1])

\* C7: with a non-empty tag filter T a source is selected iff one of its own
\* tags is in T (exact match); a source without tags is never selected.
C7_FilterSelectsByTags ==
    (pc = "returned" /\ call.fn = "filtered_sources" /\ unwrap_or_default(call.tags) # <<>>) =>
        LET T == SetOf(call.tags[1])
            sel == ret[1]
        IN  /\ \A k \in 1..Len(call.sources) :
                  (\E m \in 1..Len(sel) : sel[m] = call.sources[k])
                      <=> (C7_TagsOf(call.sources[k]) \cap T # {})
            /\ \A m \in 1..Len(sel) : \E k \in 1..Len(call.sources) : sel[m] = call.sources[k]
            /\ \A m \in 1..Len(sel) : sel[m].tags # None /\ sel[m].tags # Some(<<>>)

C7_Witness ==
    /\ pc = "returned" /\ call.fn = "filtered_sources"
    /\ call.tags = Some(<<"daily", "hourly">>)
    /\ Len(call.sources) = 3
    /\ call.sources[1].tags = Some(<<"Daily">>)
    /\ call.sources[2].tags = Some(<<"weekly", "daily">>)
    /\ call.sources[3].tags = None
    /\ ret = Some(<<call.sources[2]>>)

\* C8: with an empty tag filter (or no tags option) every configured source is
\* returned, each once, in configuration order, with or without tags.
C8_EmptyFilterSelectsAll ==
    (pc = "returned" /\ call.fn = "filtered_sources" /\ call.tags \in {None, Some(<<>>)}) =>
        /\ Len(ret[1]) = Len(call.sources)
        /\ \A k \in 1..Len(call.sources) : ret[1][k] = call.sources[k]

C8_Witness ==
    /\ pc = "returned" /\ call.fn = "filtered_sources" /\ call.tags = None
    /\ Len(call.sources) = 3
    /\ call.sources[1].tags = None
    /\ call.sources[2].tags = Some(<<"daily">>)
    /\ ret = Some(call.sources)

\* the entries of a feed, whichever its variant
C9_Entries(f) == IF f.variant = "Rss" THEN f.items ELSE f.entries

\* the entry a source item wraps
C9_Payload(x) == IF x.variant = "Rss" THEN x.item ELSE x.entry

\* C9: items(N) returns exactly min(N, len) items, the i-th the i-th entry of the
\* feed, of the feed's variant; items(0) is empty.
C9_ItemsIsPrefix ==
    (pc = "returned" /\ call.fn = "items") =>
        LET es == C9_Entries(call.feed)
            r == ret[1]
        IN  /\ Len(r) = Min(call.count, Len(es))
            /\ \A n \in 1..Len(r) : r[n].variant = call.feed.variant /\ C9_Payload(r[n]) = es[n]
            /\ call.count = 0 => r = <<>>

C9_Witness ==
    /\ pc = "returned" /\ call.fn = "items"
    /\ call.count = 2 /\ Len(C9_Entries(call.feed)) = 3
    /\ C9_Entries(call.feed)[1] # C9_Entries(call.feed)[2]
    /\ Len(ret[1]) = 2

\* C10: get_audio_link returns a URL or an explicit absence for every item
\* variant and content type, and never anything else.
C10_AudioLinkTotal ==
    (pc = "returned" /\ call.fn = "get_audio_link") =>
        /\ ret[1] \in {None} \cup {Some(u) : u \in Hrefs}
        /\ (call.item.variant = "Rss" /\ call.item.item.enclosure = None) => ret[1] = None
        /\ (call.item.variant = "Atom" /\ call.item.entry.links = <<>>) => ret[1] = None

C10_Witness ==
    /\ pc = "returned" /\ call.fn = "get_audio_link"
    /\ call.item.variant = "Rss" /\ call.item.item.enclosure = None
    /\ call.content_type = "Syndication"
    /\ ret = Some(None)


(***************************************************************************)
(* C11..C20.                                                               *)
(***************************************************************************)
\* C11: a titled item is skipped as a duplicate iff its title equals a title of
\* the snapshot, exactly: a title differing in case or whitespace is no
\* duplicate, and neither the item's link nor the source name has a say.
C11_DedupIsExactMembership ==
    (pc = "returned" /\ call.fn = "process_one") =>
        LET t == IF call.item.variant = "Rss" THEN call.item.item.title
                 ELSE Some(call.item.entry.title)
        IN  /\ (Outcome(ret[1].line) = "ItemSkipped")
                   <=> (t # None /\ \E n \in 1..Len(call.titles) : call.titles[n] = t[1])
            /\ (t = Some("News") /\ SetOf(call.titles) \subseteq {"news", "news "})
                   => Outcome(ret[1].line) # "ItemSkipped"
            /\ (t = Some("news") /\ SetOf(call.titles) \subseteq {"News", "news "})
                   => Outcome(ret[1].line) # "ItemSkipped"

C11_Witness ==
    /\ pc = "returned" /\ call.fn = "process_one"
    /\ call.item.variant = "Rss" /\ call.item.item.title = Some("News")
    /\ call.item.item.enclosure # None
    /\ call.titles = <<"news", "news ">>
    /\ Outcome(ret[1].line) = "ItemLinked"


\* the titles the catalog exchange of the current source yields (empty on failure)
C12_Snapshot ==
    LET r == get_lesson_titles(catalog) IN IF r.ok THEN r.val ELSE <<>>

C12_TitleOf(n) ==
    IF items[n].variant = "Rss" THEN items[n].item.title ELSE Some(items[n].entry.title)

\* C12: the snapshot is fetched once, when the source starts, for that source,
\* and stays what the catalog answered while the items are processed: titles
\* handled in this run are never added, so two items sharing a title that is
\* absent from the snapshot are both non-duplicates.
C12_SnapshotIsFixedPerSource ==
    InSync =>
        /\ lesson_titles = C12_Snapshot
        /\ Processed <= Len(out)
        /\ pc \in {"feed", "item"} =>
              LET k == IF pc = "feed" THEN Len(calls) ELSE Len(calls) - 1
              IN  /\ k >= 1
                  /\ calls[k] = [op |-> "get_lesson_titles", source |-> filtered[i].name]
                  /\ Cardinality({n \in 1..Len(calls) : calls[n].op = "get_lesson_titles"})
                        = Len(done) + 1
        /\ \A n \in 1..Processed :
              (Outcome(ItemLine(n)) = "ItemSkipped")
                 <=> (C12_TitleOf(n) # None /\ C12_TitleOf(n)[1] \in SetOf(C12_Snapshot))
        /\ \A m, n \in 1..Processed :
              (m < n /\ C12_TitleOf(m) # None /\ C12_TitleOf(m) = C12_TitleOf(n)
                 /\ C12_TitleOf(m)[1] \notin SetOf(C12_Snapshot))
                 => (Outcome(ItemLine(m)) # "ItemSkipped" /\ Outcome(ItemLine(n)) # "ItemSkipped")

C12_Witness ==
    /\ InSync /\ Processed >= 2
    /\ lesson_titles = <<"news">>
    /\ C12_TitleOf(1) = Some("News") /\ C12_TitleOf(2) = Some("News")
    /\ Outcome(ItemLine(1)) = "ItemLinked" /\ Outcome(ItemLine(2)) = "ItemLinked"


\* C13: once the bytes are fetched, the feed is the RSS channel when the bytes
\* decode as RSS, otherwise the Atom feed when they decode as Atom; the result
\* is a ParseError exactly when both decodes fail; a resolved feed yields
\* items of its own variant only.
C13_RssThenAtom ==
    (pc = "returned" /\ call.fn = "from_source" /\ call.http.transport = "ok") =>
        LET b == call.http.body
            r == ret[1]
        IN  /\ b.rss # None =>
                  r.ok /\ r.val = [variant |-> "Rss", items |-> b.rss[1]]
            /\ (b.rss = None /\ b.atom # None) =>
                  r.ok /\ r.val = [variant |-> "Atom", entries |-> b.atom[1]]
            /\ (~r.ok /\ r.err.kind = "ParseError") <=> (b.rss = None /\ b.atom = None)
            /\ ~r.ok => r.err.kind = "ParseError"
            /\ r.ok => \A n \in 1..Len(Items(r.val, ItemCount)) :
                          Items(r.val, ItemCount)[n].variant = r.val.variant

C13_Witness ==
    /\ pc = "returned" /\ call.fn = "from_source" /\ call.http.transport = "ok"
    /\ call.http.body.rss # None /\ call.http.body.atom # None
    /\ Len(call.http.body.rss[1]) = 1 /\ Len(call.http.body.atom[1]) = 1
    /\ ret[1].ok /\ ret[1].val.variant = "Rss"


\* C14: whichever way yt_dlp returns (the bytes, a failure to create the file
\* or to start the tool, a non-zero exit, a failure to open or to read the
\* file), no temporary file of its own is left behind, and the other files of
\* the directory are as they were; until it returns the file handle is held.
C14_TmpfileRemovedOnEveryExit ==
    /\ pc \in {"returned", "panicked"} => (fs \cap TmpPaths = {} /\ tmpfile = None)
    /\ pc \in {"spawn", "status", "open", "read"} => tmpfile # None
    /\ pc = "returned" =>
          /\ ret # None
          /\ ret[1].ok => (output # None /\ output[1].status = 0
                             /\ ret[1].val \in Contents)
          /\ ~ret[1].ok => ret[1].err.kind = "AudioDownloadError"

C14_Witness ==
    /\ pc = "returned" /\ call.fn = "download_audio"
    /\ output # None /\ output[1].status = 0
    /\ ~ret[1].ok /\ ret[1].err.detail.op = "read"
    /\ fs = {"other.mp3"}


\* the name printed by the "Syncing source" line that opens out
C15_SourceName == out[1].args[1]

\* C15 (as claimed): every skip or failure report of a sync carries the name
\* of the source, and the title of the item whenever the item has one.
C15_ReportsCarryContext ==
    (InSync /\ Len(out) >= 1 /\ Processed <= Len(out)) =>
        \A n \in 1..Len(out) :
            LET line == out[n]
                k == n - (Len(out) - Processed)
            IN  /\ line.fmt \in {FeedErrFmt, TitlesErrFmt, NoTitleFmt} =>
                      line.args[1] = C15_SourceName
                /\ line.fmt \in {SkipFmt, NoLinkFmt} =>
                      /\ C15_SourceName \in SetOf(line.args)
                      /\ C12_TitleOf(k) # None => C12_TitleOf(k)[1] \in SetOf(line.args)


C16_Rules == {"enclosure", "primary-link"}

\* the data of a feed item, whatever the format it came in
C16_Payload(x) == IF x.variant = "Rss" THEN x.item ELSE x.entry

\* what each policy reads from an item's data
C16_RuleLink(rule, x) ==
    LET p == C16_Payload(x)
    IN  IF rule = "enclosure"
        THEN IF "enclosure" \in DOMAIN p /\ IsSome(p.enclosure)
             THEN Some(Unwrap(p.enclosure).url) ELSE None
        ELSE IF "links" \in DOMAIN p /\ Len(p.links) > 0
             THEN Some(p.links[1].href) ELSE None

C16_FeedItems == {x \in SourceItemsAll : x.variant \in {"Rss", "Atom"}}

\* C16 (as claimed): the link of a feed item is decided by the content type of
\* its source and not by the format of the item: each content type stands for
\* one policy, applied to RSS items and Atom entries alike, and both the
\* enclosure policy and the primary-link policy can be asked for.
C16_DispatchOnContentType ==
    (pc = "returned" /\ call.fn = "get_audio_link" /\ call.item \in C16_FeedItems) =>
        \E policy \in [ContentTypes -> C16_Rules] :
            /\ ret[1] = C16_RuleLink(policy[call.content_type], call.item)
            /\ \A x \in C16_FeedItems :
                  get_audio_link(x) = C16_RuleLink(policy[call.content_type], x)
            /\ \A rule \in C16_Rules : \E ct \in ContentTypes : policy[ct] = rule


\* C17: the link of an RSS item is its enclosure's URL, absent without an
\* enclosure; the link of an Atom entry is the href of its first link, absent
\* without links; a static item built from (u, t) always has link u and title t.
C17_LinkRules ==
    /\ (pc = "returned" /\ call.fn = "get_audio_link") =>
          LET x == call.item
          IN  /\ x.variant = "Rss" =>
                    /\ x.item.enclosure # None => ret[1] = Some(x.item.enclosure[1].url)
                    /\ x.item.enclosure = None => ret[1] = None
              /\ x.variant = "Atom" =>
                    /\ x.entry.links # <<>> => ret[1] = Some(Head(x.entry.links).href)
                    /\ x.entry.links = <<>> => ret[1] = None
              /\ \A u \in Hrefs, t \in Titles :
                    x = from_url_and_title(u, t) => ret[1] = Some(u)
    /\ (pc = "returned" /\ call.fn = "title") =>
          \A u \in Hrefs, t \in Titles :
              call.item = from_url_and_title(u, t) => ret[1] = Some(t)

C17_Witness ==
    /\ pc = "returned" /\ call.fn = "get_audio_link"
    /\ call.item.variant = "Atom"
    /\ Len(call.item.entry.links) = 2
    /\ call.item.entry.links[1].href # call.item.entry.links[2].href
    /\ ret[1] = Some(call.item.entry.links[1].href)


\* the requests made for the sources that are Done: two each
C18_CallsOfDone == 2 * Len(done)

\* C18: per source the order is title fetch, feed fetch, items, Done: the
\* requests of the run are, source after source, the title fetch and then the
\* feed fetch; no item line is printed before the feed fetch; items are only
\* processed with a resolved feed; a source that is Done gets no further step.
C18_PerSourceOrder ==
    InSync =>
        /\ Len(calls) = C18_CallsOfDone + (CASE pc = "feed" -> 1 [] pc = "item" -> 2 [] OTHER -> 0)
        /\ \A n \in 1..Len(calls) :
              calls[n] = [op |-> IF n % 2 = 1 THEN "get_lesson_titles" ELSE "from_source",
                          source |-> filtered[(n + 1) \div 2].name]
        /\ pc \in {"titles", "feed", "item"} => i = Len(done) + 1
        /\ pc = "done" => Len(done) = Len(filtered)
        /\ pc = "feed" =>
              /\ Processed = 0
              /\ \A n \in 1..Len(out) : Outcome(out[n]) = "none"
        /\ Processed > 0 => (feed # None /\ from_source(fetched).ok)
        /\ pc = "item" => (feed # None /\ j \in 1..Len(items))
        /\ (AtSourceEnd /\ ~done[Len(done)].feed_ok) =>
              /\ Processed = 0
              /\ \A n \in 1..Len(out) : Outcome(out[n]) = "none"

C18_Witness ==
    /\ SyncEnded /\ Len(done) = 2 /\ Len(calls) = 4
    /\ done[1].feed_ok /\ done[2].feed_ok
    /\ Processed = 2
    /\ Outcome(ItemLine(1)) = "ItemSkipped" /\ Outcome(ItemLine(2)) = "ItemLinked"


\* where a source is declared in the configuration
C19_Pos(name) == CHOOSE k \in 1..Len(config) : config[k].name = name

\* C19: the selection keeps the declaration order; the sources that are Done
\* are the first of the selection, in order, and every request of the run is
\* for a source no earlier than those of the requests before it; the item
\* being processed is the next of the feed, and the n-th outcome printed is the
\* outcome of the feed's n-th entry.
C19_SequentialInOrder ==
    InSync =>
        /\ \A m, n \in 1..Len(filtered) :
              m < n => C19_Pos(filtered[m].name) < C19_Pos(filtered[n].name)
        /\ Len(done) <= Len(filtered)
        /\ \A n \in 1..Len(done) : done[n].source = filtered[n].name
        /\ \A m, n \in 1..Len(calls) :
              m < n => C19_Pos(calls[m].source) <= C19_Pos(calls[n].source)
        /\ \A n \in 1..Len(calls) :
              calls[n].source \in {filtered[k].name : k \in 1..Min(Len(done) + 1, Len(filtered))}
        /\ feed # None =>
              /\ Len(items) <= Len(C9_Entries(feed[1]))
              /\ \A n \in 1..Len(items) : C9_Payload(items[n]) = C9_Entries(feed[1])[n]
              /\ Processed <= Len(out)
              /\ \A n \in 1..Processed :
                    Outcome(ItemLine(n)) =
                        C5_Expected(IF feed[1].variant = "Rss"
                                    THEN SourceItemRss(C9_Entries(feed[1])[n])
                                    ELSE SourceItemAtom(C9_Entries(feed[1])[n]),
                                    lesson_titles)
              /\ Cardinality({n \in 1..Len(out) : Outcome(out[n]) # "none"}) = Processed

C19_Witness ==
    /\ SyncEnded /\ Len(filtered) = 2 /\ Len(done) = 2
    /\ C19_Pos(filtered[1].name) = 1 /\ C19_Pos(filtered[2].name) = 2
    /\ feed # None /\ feed[1].variant = "Rss" /\ Len(feed[1].items) = 2
    /\ Outcome(ItemLine(1)) = "ItemFailed:missing-title"
    /\ Outcome(ItemLine(2)) = "ItemLinked"


\* the item outcomes printed for the current source, in order
C20_Printed == SelectSeq(out, LAMBDA line : Outcome(line) # "none")

\* C20: a failed or skipped item does not end its source: while items are
\* being processed the next one is pending whatever the earlier outcomes
\* were, and a source whose feed was resolved is Done only with one outcome
\* for each of its first N entries.
C20_ItemFailureNeverAborts ==
    InSync =>
        /\ pc = "item" =>
              /\ Len(C20_Printed) = j - 1
              /\ j <= Len(items)
        /\ (AtSourceEnd /\ done[Len(done)].feed_ok) =>
              /\ feed # None
              /\ Len(items) = Min(ItemCount, Len(C9_Entries(feed[1])))
              /\ Len(C20_Printed) = Len(items)
              /\ \A n \in 1..Len(items) :
                    Outcome(C20_Printed[n]) \in
                        {"ItemSkipped", "ItemFailed:missing-title", "ItemFailed:missing-link",
                         "ItemLinked"}

C20_Witness ==
    /\ AtSourceEnd /\ done[Len(done)].feed_ok
    /\ Len(items) = 3 /\ Len(C20_Printed) = 3
    /\ Outcome(C20_Printed[1]) = "ItemLinked"
    /\ Outcome(C20_Printed[2]) = "ItemFailed:missing-link"
    /\ Outcome(C20_Printed[3]) = "ItemSkipped"
    /\ Len(done) = 2


(***************************************************************************)
(* C21..C26.                                                               *)
(***************************************************************************)
\* how many lines of out were printed with the format fmt
C21_Count(fmt) == Cardinality({n \in 1..Len(out) : out[n].fmt = fmt})

\* C21: nothing is retried: no request of the run is made twice for the same
\* source, the audio link of an item is resolved at most once, and a failed
\* catalog request or feed fetch is reported by exactly one line, after which
\* the source goes on without titles, or ends without items.
C21_NoRetry ==
    InSync =>
        /\ \A m, n \in 1..Len(calls) : m < n => calls[m] # calls[n]
        /\ \A m, n \in 1..Len(resolved) : m < n => resolved[m] < resolved[n]
        /\ \A n \in 1..Len(resolved) : resolved[n] \in 1..Processed
        /\ Len(out) >= 1 =>
              /\ C21_Count(TitlesErrFmt) = IF get_lesson_titles(catalog).ok THEN 0 ELSE 1
              /\ C21_Count(FeedErrFmt) =
                    IF pc # "feed" /\ ~from_source(fetched).ok THEN 1 ELSE 0
              /\ C21_Count(FeedErrFmt) = 1 =>
                    (Processed = 0 /\ AtSourceEnd /\ ~done[Len(done)].feed_ok)

C21_Witness ==
    /\ AtSourceEnd /\ Len(done) = 2 /\ Len(calls) = 4
    /\ ~done[1].feed_ok /\ done[2].feed_ok
    /\ ~get_lesson_titles(catalog).ok
    /\ C21_Count(TitlesErrFmt) = 1
    /\ Processed = 2 /\ resolved = <<1, 2>>
    /\ Outcome(ItemLine(2)) = "ItemFailed:missing-link"


\* C22: of a resolved feed only the first 5 entries are processed: the source
\* gets min(5, feed length) outcomes, those of the entries 1 to 5 in order,
\* and no entry at position 6 or later is held, reported or linked.
C22_OnlyFirstFive ==
    (InSync /\ feed # None) =>
        /\ Len(items) = Min(5, Len(C9_Entries(feed[1])))
        /\ Processed <= 5
        /\ Len(C20_Printed) = Processed
        /\ \A n \in 1..Len(resolved) : resolved[n] <= 5
        /\ AtSourceEnd => Len(C20_Printed) = Min(5, Len(C9_Entries(feed[1])))
        /\ (AtSourceEnd /\ Len(C9_Entries(feed[1])) > 5) =>
              \A n \in 1..5 : C20_Printed[n] = ProcessOne(items[n], lesson_titles, done[Len(done)].source).line

C22_Witness ==
    /\ AtSourceEnd /\ feed # None /\ feed[1].variant = "Rss"
    /\ Len(feed[1].items) = 6 /\ feed[1].items[6].title = None
    /\ Len(items) = 5 /\ Len(C20_Printed) = 5
    /\ \A n \in 1..Len(out) : out[n].fmt # NoTitleFmt


\* C23: a feed fetch that fails in transport (no connection, or the body
\* cannot be read) ends in FetchError, never in ParseError; ParseError arises
\* only with the bytes in hand and neither decoder accepting them; the two
\* print with different prefixes.
C23_FetchVsParse ==
    (pc = "returned" /\ call.fn = "from_source") =>
        LET h == call.http
            r == ret[1]
        IN  /\ h.transport # "ok" =>
                  (~r.ok /\ r.err.kind = "FetchError" /\ r.err.detail = h.transport)
            /\ (~r.ok /\ r.err.kind = "ParseError") =>
                  (h.transport = "ok" /\ h.body.rss = None /\ h.body.atom = None)
            /\ ~r.ok =>
                  /\ r.err.kind \in {"FetchError", "ParseError"}
                  /\ (DisplaySourceError(r.err)[1] = "Fetch error: {}") <=> (h.transport # "ok")
                  /\ (DisplaySourceError(r.err)[1] = "Parse error: {}") <=> (h.transport = "ok")

C23_Witness ==
    /\ pc = "returned" /\ call.fn = "from_source"
    /\ call.http.transport = "body"
    /\ ~ret[1].ok /\ ret[1].err.kind = "FetchError"


RECURSIVE C24_Utf8(_)
\* the UTF-8 bytes of a text given by its code points
C24_Utf8(chars) ==
    IF chars = <<>> THEN <<>>
    ELSE LET c == chars[1]
         IN  (IF c < 128 THEN <<c>>
              ELSE IF c < 2048 THEN <<192 + (c \div 64), 128 + (c % 64)>>
              ELSE <<224 + (c \div 4096), 128 + ((c \div 64) % 64), 128 + (c % 64)>>)
             \o C24_Utf8(Tail(chars))

\* C24 (as claimed): after a non-zero exit of the tool the download returns a
\* download error whose message holds the tool's stderr as the tool wrote it,
\* and bytes are returned only after a zero exit and a complete read.
C24_NonZeroExitCarriesStderr ==
    (pc = "returned" /\ output # None) =>
        /\ output[1].status # 0 =>
              /\ ~ret[1].ok
              /\ ret[1].err.kind = "AudioDownloadError"
              /\ ret[1].err.detail.op = "Other"
              /\ ret[1].err.detail.msg[1] = "yt-dlp failed: {}"
              /\ C24_Utf8(ret[1].err.detail.msg[2]) = output[1].stderr
        /\ ret[1].ok => (output[1].status = 0 /\ ret[1].val \in Contents)


\* the sync has reached its end with every selected source Done, in order
C25_AllDone ==
    /\ pc = "done"
    /\ Len(done) = Len(filtered)
    /\ \A n \in 1..Len(filtered) :
          /\ done[n].source = filtered[n].name
          /\ Cardinality({m \in 1..Len(calls) : calls[m].source = filtered[n].name
                                                  /\ calls[m].op = "get_lesson_titles"}) = 1

\* C25: once the Sync arm is entered nothing is fatal: whatever the catalog
\* and the feeds answer and whatever the items lack, every step stays inside
\* the loop or ends the run normally, and the run does end, with every
\* selected source attempted exactly once and Done.
C25_NothingFatalInSync ==
    /\ [][(cli.cmd = "sync" /\ pc \in {"dispatch", "titles", "feed", "item"})
             => pc' \in {"titles", "feed", "item", "done"}]_vars
    /\ [](SyncEnded => C25_AllDone)
    /\ (cli.cmd = "sync" /\ pc = "dispatch") ~> C25_AllDone

C25_Witness ==
    /\ SyncEnded /\ C25_AllDone /\ Len(done) = 2
    /\ ~done[1].feed_ok /\ done[2].feed_ok
    /\ ~get_lesson_titles(catalog).ok
    /\ Processed = 2
    /\ Outcome(ItemLine(1)) = "ItemFailed:missing-title"
    /\ Outcome(ItemLine(2)) = "ItemFailed:missing-link"


\* C26 (as claimed): download_audio ends with bytes or with a SourceError for
\* every item, an item without an audio link included: it never panics, and
\* the tool is only run with a link that was resolved as present.
C26_DownloadNeverPanics ==
    call.fn = "download_audio" =>
        /\ pc # "panicked"
        /\ pc \in {"tmpfile", "spawn", "status", "open", "read"} =>
              get_audio_link(call.item) # None
        /\ (pc = "returned" /\ get_audio_link(call.item) = None) =>
              (~ret[1].ok /\ ret[1].err.kind \in {"FetchError", "ParseError", "AudioDownloadError"})

====
